---- MODULE Spec2Model ----
(***************************************************************************)
(* Model of src-tauri/src/commands/fs.rs: the three Tauri commands         *)
(* check_path, get_home_dir and open_in_explorer.                          *)
(*                                                                         *)
(* The filesystem is modelled by what std::fs::metadata(path) yields for   *)
(* each path (Path::exists, Path::is_file and Path::is_dir are each one    *)
(* metadata query).  Other processes may change the filesystem between     *)
(* any two queries of a call (FsChange).  The build target is fixed at     *)
(* Init (the #[cfg(target_os = ...)] blocks are chosen at compile time).   *)
(***************************************************************************)
EXTENDS Integers, Sequences, FiniteSets

\* ---------------------------------------------------------------- bounds
\* number of distinct OS errors Command::spawn may fail with
NumOsErrors == 2
\* longest home directory (in units of the platform string) the lookup yields
MaxHomeLen == 2

\* ---------------------------------------------------------------- options
None == <<>>
Some(x) == <<x>>

\* ---------------------------------------------------------------- paths
\* A path is the sequence of its components (std::path::Components).
EmptyPath == <<>>
RootDir == <<"/">>
DirT == <<"/", "T">>
FileA == <<"/", "T", "a.txt">>
DevNul == <<"\\\\.\\nul">>
BadPath == <<"a\\0b">>

Paths == {EmptyPath, RootDir, DirT, FileA, DevNul, BadPath}

\* components that are a root directory or a Windows prefix
RootOrPrefix == {"/", "\\\\.\\nul"}

\* Path::parent as a bug would have it: a path without parent yields itself
ParentSelf(p) ==
    IF p = EmptyPath \/ p[Len(p)] \in RootOrPrefix
    THEN Some(p)
    ELSE Some(SubSeq(p, 1, Len(p) - 1))

\* Path::parent: None for the empty path and for a path ending in a root or
\* prefix, otherwise the path without its last component
Parent(p) ==
    IF p = EmptyPath \/ p[Len(p)] \in RootOrPrefix
    THEN None
    ELSE Some(SubSeq(p, 1, Len(p) - 1))

\* ---------------------------------------------------------------- filesystem
\* What fs::metadata(path) yields: Err(not found), Err(any other error:
\* permission denied, invalid input), or Ok with the entry's file type.
Entries == {"NotFound", "Error", "File", "Dir", "Other"}

\* The filesystems the model ranges over: the empty path is never found, the
\* root is a directory, a path with an interior NUL is an invalid input, and
\* an entry below something that is not a directory cannot be reached.
ValidFS ==
    {f \in [Paths -> Entries] :
        /\ f[EmptyPath] = "NotFound"
        /\ f[RootDir] = "Dir"
        /\ f[BadPath] = "Error"
        /\ (f[DirT] # "Dir" => f[FileA] \in {"NotFound", "Error"})}

\* Path::exists as a bug would have it: only "not found" counts as absent
ExistsUnlessNotFound(e) == e # "NotFound"

\* Path::exists as a bug would have it: no check at all
ExistsAlways(e) == TRUE

\* Path::exists: fs::metadata(path).is_ok()
Exists(e) == e \in {"File", "Dir", "Other"}

\* Path::is_file as a bug would have it: anything that exists
IsFileAnyEntry(e) == e \in {"File", "Dir", "Other"}

\* Path::is_file: metadata is Ok and the type is a regular file
IsFile(e) == e = "File"

\* Path::is_dir: metadata is Ok and the type is a directory
IsDir(e) == e = "Dir"

\* ---------------------------------------------------------------- results
NoResult == [tag |-> "None"]
OkStatus(e, f, d) ==
    [tag |-> "Ok", value |-> [exists |-> e, is_file |-> f, is_directory |-> d]]
OkString(s) == [tag |-> "Ok", value |-> s]
OkUnit == [tag |-> "Ok"]
ErrMsg(m) == [tag |-> "Err", msg |-> m]
ErrPath(m, p) == [tag |-> "Err", msg |-> m, path |-> p]
ErrOs(m, e) == [tag |-> "Err", msg |-> m, os |-> e]

\* ---------------------------------------------------------------- platform
\* "freebsd" stands for every target_os other than the three the code names
TargetOs == {"windows", "macos", "linux", "freebsd"}

\* the program of the #[cfg(target_os = ...)] block compiled in, if any
Launcher(os) ==
    CASE os = "windows" -> Some("explorer")
      [] os = "macos" -> Some("open")
      [] os = "linux" -> Some("xdg-open")
      [] OTHER -> None

LaunchMsg(os) ==
    CASE os = "windows" -> "Failed to open explorer: "
      [] os = "macos" -> "Failed to open finder: "
      [] os = "linux" -> "Failed to open file manager: "
      [] OTHER -> ""

OsErrors == 1..NumOsErrors

\* map_err as a bug would have it: the spawn error is dropped
SpawnFailedIgnored(os, e) == OkUnit

\* .map_err(|e| format!("Failed to open ...: {}", e))?
SpawnFailed(os, e) == ErrOs(LaunchMsg(os), e)

\* ---------------------------------------------------------------- home
Units == {"h", "BAD"}
OsStrings == UNION {[1..n -> Units] : n \in 1..MaxHomeLen}
HomeLookups == {None} \cup {Some(s) : s \in OsStrings}

\* OsStr::to_string_lossy: invalid units become U+FFFD
ToStringLossy(s) == [i \in 1..Len(s) |-> IF s[i] = "BAD" THEN "U+FFFD" ELSE s[i]]

ValidUnicode(s) == \A i \in 1..Len(s) : s[i] # "BAD"

\* get_home_dir as a bug would have it: unwrap_or_default
HomeResultDefault(h) ==
    IF h = None THEN OkString(<<>>) ELSE OkString(ToStringLossy(h[1]))

\* home_dir().map(to_string_lossy).ok_or_else(...)
HomeResult(h) ==
    IF h = None
    THEN ErrMsg("Could not determine home directory")
    ELSE OkString(ToStringLossy(h[1]))

\* ---------------------------------------------------------------- target
\* the target as a bug would have it: always the path itself
PathToOpenSelf(p, isfile) == Some(p)

\* the target as a bug would have it: always the parent
PathToOpenParent(p, isfile) == Parent(p)

\* if path.is_file() { path.parent().ok_or_else(..)? } else { path }
PathToOpen(p, isfile) == IF isfile THEN Parent(p) ELSE Some(p)

\* ---------------------------------------------------------------- state
VARIABLES
    target_os,      \* the build target
    fs,             \* the filesystem: what metadata yields for each path
    op,             \* the command in progress or last completed
    pc,             \* the command's position
    path,           \* the command's path argument
    entry0,         \* history: what the path was when the call began
    changed,        \* history: the filesystem changed during the call
    is_file,        \* check_path: the is_file field already evaluated
    path_to_open,   \* open_in_explorer: the resolved target
    spawns,         \* open_in_explorer: the spawn attempts of this call
    home,           \* get_home_dir: what dirs::home_dir() yielded
    result          \* the value returned by the command

vars == <<target_os, fs, op, pc, path, entry0, changed, is_file,
          path_to_open, spawns, home, result>>

Init ==
    /\ target_os \in TargetOs
    /\ fs \in ValidFS
    /\ op = "none"
    /\ pc = "idle"
    /\ path = EmptyPath
    /\ entry0 = "NotFound"
    /\ changed = FALSE
    /\ is_file = FALSE
    /\ path_to_open = EmptyPath
    /\ spawns = <<>>
    /\ home = None
    /\ result = NoResult

Free == pc \in {"idle", "done"}

\* another process creates, deletes or replaces one entry
FsChange ==
    /\ \E p \in Paths : \E e \in Entries \ {fs[p]} :
          /\ [fs EXCEPT ![p] = e] \in ValidFS
          /\ fs' = [fs EXCEPT ![p] = e]
    /\ changed' = (changed \/ ~Free)
    /\ UNCHANGED <<target_os, op, pc, path, entry0, is_file, path_to_open,
                   spawns, home, result>>

Begin(o, p) ==
    /\ Free
    /\ op' = o
    /\ pc' = "exists"
    /\ path' = p
    /\ entry0' = fs[p]
    /\ changed' = FALSE
    /\ is_file' = FALSE
    /\ path_to_open' = EmptyPath
    /\ spawns' = <<>>
    /\ home' = None
    /\ result' = NoResult
    /\ UNCHANGED <<target_os, fs>>

\* ---------------------------------------------------------------- check_path
CheckPathCall == \E p \in Paths : Begin("check_path", p)

\* if path.exists() { ... } else { Ok({false, false, false}) }
CheckPathExists ==
    /\ op = "check_path" /\ pc = "exists"
    /\ IF Exists(fs[path])
       THEN pc' = "is_file" /\ result' = result
       ELSE pc' = "done" /\ result' = OkStatus(FALSE, FALSE, FALSE)
    /\ UNCHANGED <<target_os, fs, op, path, entry0, changed, is_file,
                   path_to_open, spawns, home>>

\* is_file: path.is_file()
CheckPathIsFile ==
    /\ op = "check_path" /\ pc = "is_file"
    /\ is_file' = IsFile(fs[path])
    /\ pc' = "is_dir"
    /\ UNCHANGED <<target_os, fs, op, path, entry0, changed, path_to_open,
                   spawns, home, result>>

\* is_directory: path.is_dir(), and the result is returned
CheckPathIsDir ==
    /\ op = "check_path" /\ pc = "is_dir"
    /\ result' = OkStatus(TRUE, is_file, IsDir(fs[path]))
    /\ pc' = "done"
    /\ UNCHANGED <<target_os, fs, op, path, entry0, changed, is_file,
                   path_to_open, spawns, home>>

\* ---------------------------------------------------------------- get_home_dir
GetHomeDir ==
    /\ Free
    /\ \E h \in HomeLookups :
          /\ home' = h
          /\ result' = HomeResult(h)
    /\ op' = "get_home_dir"
    /\ pc' = "done"
    /\ path' = EmptyPath
    /\ entry0' = "NotFound"
    /\ changed' = FALSE
    /\ is_file' = FALSE
    /\ path_to_open' = EmptyPath
    /\ spawns' = <<>>
    /\ UNCHANGED <<target_os, fs>>

\* ---------------------------------------------------------------- open_in_explorer
OpenCall == \E p \in Paths : Begin("open_in_explorer", p)

\* if !path.exists() { return Err("Path does not exist: ...") }
OpenExists ==
    /\ op = "open_in_explorer" /\ pc = "exists"
    /\ IF Exists(fs[path])
       THEN pc' = "is_file" /\ result' = result
       ELSE pc' = "done" /\ result' = ErrPath("Path does not exist: ", path)
    /\ UNCHANGED <<target_os, fs, op, path, entry0, changed, is_file,
                   path_to_open, spawns, home>>

\* let path_to_open = if path.is_file() { path.parent().ok_or_else(..)? } else { path }
OpenResolve ==
    /\ op = "open_in_explorer" /\ pc = "is_file"
    /\ is_file' = IsFile(fs[path])
    /\ LET t == PathToOpen(path, IsFile(fs[path])) IN
          IF t = None
          THEN /\ pc' = "done"
               /\ result' = ErrMsg("Could not get parent directory")
               /\ path_to_open' = path_to_open
          ELSE /\ pc' = "spawn"
               /\ result' = result
               /\ path_to_open' = t[1]
    /\ UNCHANGED <<target_os, fs, op, path, entry0, changed, spawns, home>>

Attempt(prog, e) == [program |-> prog, args |-> <<path_to_open>>, error |-> e]

\* Command::new(..).arg(path_to_open).spawn() succeeds; Ok(())
OpenSpawnOk ==
    /\ op = "open_in_explorer" /\ pc = "spawn"
    /\ Launcher(target_os) # None
    /\ spawns' = Append(spawns, Attempt(Launcher(target_os)[1], 0))
    /\ result' = OkUnit
    /\ pc' = "done"
    /\ UNCHANGED <<target_os, fs, op, path, entry0, changed, is_file,
                   path_to_open, home>>

\* Command::new(..).arg(path_to_open).spawn() fails with an OS error
OpenSpawnFail ==
    /\ op = "open_in_explorer" /\ pc = "spawn"
    /\ Launcher(target_os) # None
    /\ \E e \in OsErrors :
          /\ spawns' = Append(spawns, Attempt(Launcher(target_os)[1], e))
          /\ result' = SpawnFailed(target_os, e)
    /\ pc' = "done"
    /\ UNCHANGED <<target_os, fs, op, path, entry0, changed, is_file,
                   path_to_open, home>>

\* no #[cfg] block is compiled in for the target; Ok(())
OpenNoLauncher ==
    /\ op = "open_in_explorer" /\ pc = "spawn"
    /\ Launcher(target_os) = None
    /\ result' = OkUnit
    /\ pc' = "done"
    /\ UNCHANGED <<target_os, fs, op, path, entry0, changed, is_file,
                   path_to_open, spawns, home>>

Next ==
    \/ FsChange
    \/ CheckPathCall
    \/ CheckPathExists
    \/ CheckPathIsFile
    \/ CheckPathIsDir
    \/ GetHomeDir
    \/ OpenCall
    \/ OpenExists
    \/ OpenResolve
    \/ OpenSpawnOk
    \/ OpenSpawnFail
    \/ OpenNoLauncher

Spec == Init /\ [][Next]_vars

\* ---------------------------------------------------------------- properties
TypeOK ==
    /\ target_os \in TargetOs
    /\ fs \in ValidFS
    /\ op \in {"none", "check_path", "get_home_dir", "open_in_explorer"}
    /\ pc \in {"idle", "exists", "is_file", "is_dir", "spawn", "done"}
    /\ path \in Paths
    /\ entry0 \in Entries
    /\ changed \in BOOLEAN
    /\ is_file \in BOOLEAN
    /\ home \in HomeLookups
    /\ result.tag \in {"None", "Ok", "Err"}

Done(o) == op = o /\ pc = "done"

\* the call ran on a filesystem nobody changed while it ran
Quiet(o) == Done(o) /\ ~changed

\* the attempts of this call that started a process
Spawned == {i \in 1..Len(spawns) : spawns[i].error = 0}

\* the paths of the model that Path::parent has no parent for
Parentless == {EmptyPath, RootDir, DevNul}

\* C1: on a filesystem that does not change during the call, check_path
\* returns {true, true, false} for a regular file, {true, false, true} for a
\* directory and {false, false, false} for a path that does not exist.
CheckPathReportsKind ==
    Quiet("check_path") =>
        /\ entry0 = "File" => result = OkStatus(TRUE, TRUE, FALSE)
        /\ entry0 = "Dir" => result = OkStatus(TRUE, FALSE, TRUE)
        /\ entry0 = "NotFound" => result = OkStatus(FALSE, FALSE, FALSE)

CheckPathReportsKindWitness ==
    /\ Quiet("check_path")
    /\ path = FileA
    /\ entry0 = "File"
    /\ result.value.is_file

\* C2: check_path never returns an error, whatever the input, and an entry
\* whose metadata cannot be read (missing, permission denied, malformed
\* path) is reported with exists = false.
CheckPathNeverFails ==
    op = "check_path" =>
        /\ result.tag # "Err"
        /\ pc = "done" => result.tag = "Ok"
        /\ (Quiet("check_path") /\ entry0 \in {"NotFound", "Error"})
              => ~result.value.exists

CheckPathNeverFailsWitness ==
    /\ Quiet("check_path")
    /\ path = BadPath
    /\ entry0 = "Error"
    /\ result.tag = "Ok"

\* C3: open_in_explorer on a path that does not exist returns the not-found
\* error naming the path, and has spawned no process when it returns.
OpenMissingPathFails ==
    (Quiet("open_in_explorer") /\ entry0 = "NotFound") =>
        /\ result = ErrPath("Path does not exist: ", path)
        /\ spawns = <<>>

OpenMissingPathFailsWitness ==
    /\ Quiet("open_in_explorer")
    /\ path = FileA
    /\ entry0 = "NotFound"
    /\ result.tag = "Err"

\* C4: open_in_explorer on a regular file hands the launcher the file's
\* parent directory as its only argument, never the file itself: for
\* /T/a.txt the argument is /T.  Where the target has a launcher, the call
\* makes exactly that one attempt.
OpenFileTargetsParent ==
    (op = "open_in_explorer" /\ ~changed /\ entry0 = "File") =>
        /\ \A i \in 1..Len(spawns) :
              /\ Parent(path) # None
              /\ spawns[i].args = <<Parent(path)[1]>>
              /\ spawns[i].args # <<path>>
              /\ spawns[i].program = Launcher(target_os)[1]
              /\ path = FileA => spawns[i].args = <<DirT>>
        /\ (pc = "done" /\ Launcher(target_os) # None /\ path \notin Parentless)
              => Len(spawns) = 1

OpenFileTargetsParentWitness ==
    /\ Quiet("open_in_explorer")
    /\ path = FileA
    /\ entry0 = "File"
    /\ Len(spawns) = 1
    /\ spawns[1].error = 0
    /\ spawns[1].args = <<DirT>>

\* C5: open_in_explorer on an existing path that is not a regular file (a
\* directory, or an entry that is neither) hands the launcher the path
\* itself, unchanged, as its only argument.
OpenDirTargetsItself ==
    (op = "open_in_explorer" /\ ~changed /\ entry0 \in {"Dir", "Other"}) =>
        /\ \A i \in 1..Len(spawns) :
              /\ spawns[i].args = <<path>>
              /\ spawns[i].program = Launcher(target_os)[1]
        /\ (pc = "done" /\ Launcher(target_os) # None) => Len(spawns) = 1

OpenDirTargetsItselfWitness ==
    /\ Quiet("open_in_explorer")
    /\ path = DirT
    /\ entry0 = "Dir"
    /\ Len(spawns) = 1
    /\ spawns[1].error = 0
    /\ spawns[1].args = <<DirT>>

\* C6: every call of open_in_explorer that returns Ok has spawned exactly
\* one launcher process, on every target the module builds for.
OpenOkSpawnsExactlyOne ==
    (Done("open_in_explorer") /\ result.tag = "Ok") => Cardinality(Spawned) = 1

\* C7: when the spawn fails, open_in_explorer returns the launch error with
\* the OS error embedded; it never returns Ok after a failed spawn and makes
\* no second attempt.
OpenSpawnFailureSurfaced ==
    op = "open_in_explorer" =>
        /\ Len(spawns) <= 1
        /\ \A i \in 1..Len(spawns) :
              spawns[i].error # 0 =>
                  /\ pc = "done"
                  /\ result.tag = "Err"
                  /\ result.msg \in {"Failed to open explorer: ",
                                     "Failed to open finder: ",
                                     "Failed to open file manager: "}
                  /\ result.os = spawns[i].error

OpenSpawnFailureSurfacedWitness ==
    /\ Done("open_in_explorer")
    /\ Len(spawns) = 1
    /\ spawns[1].error # 0
    /\ result.tag = "Err"

\* C8: get_home_dir returns Ok exactly when the lookup yields a directory,
\* and then the directory as a string (a valid Unicode directory verbatim);
\* it returns "Could not determine home directory" exactly when the lookup
\* yields none.
HomeDirOkIffFound ==
    Done("get_home_dir") =>
        /\ result.tag = "Ok" <=> home # None
        /\ home # None =>
              /\ Len(result.value) = Len(home[1])
              /\ \A i \in 1..Len(home[1]) :
                    home[1][i] # "BAD" => result.value[i] = home[1][i]
        /\ result.tag = "Err" <=> home = None
        /\ home = None => result = ErrMsg("Could not determine home directory")

HomeDirOkIffFoundWitness ==
    /\ Done("get_home_dir")
    /\ home = None
    /\ result.tag = "Err"

\* C9: every PathExistsResult check_path returns is well-formed (exists =
\* false implies both flags false; the flags are never both true), also when
\* another process replaces the entry between the queries.
CheckPathWellFormed ==
    Done("check_path") =>
        /\ ~result.value.exists =>
              (~result.value.is_file /\ ~result.value.is_directory)
        /\ ~(result.value.is_file /\ result.value.is_directory)

\* C10: open_in_explorer on a regular file without a parent directory
\* returns "Could not get parent directory" and has spawned no process; the
\* failed parent lookup is never preceded by a spawn attempt.
OpenParentlessFileFails ==
    /\ (Quiet("open_in_explorer") /\ entry0 = "File" /\ path \in Parentless) =>
          /\ result = ErrMsg("Could not get parent directory")
          /\ spawns = <<>>
    /\ (op = "open_in_explorer" /\ result.tag = "Err"
            /\ result.msg = "Could not get parent directory") => spawns = <<>>

OpenParentlessFileFailsWitness ==
    /\ Quiet("open_in_explorer")
    /\ path = DevNul
    /\ entry0 = "File"
    /\ result.tag = "Err"

====
